---- MODULE Spec2Model ----
(***************************************************************************)
(* Presence and notification hub of server/services/websocket.ts, with the *)
(* two callers of server/routes.ts (the x-user-id middleware and the       *)
(* training-progress route).                                               *)
(*                                                                         *)
(* Strings are sequences of one-character strings, so that slice() and     *)
(* template concatenation are computed and not assumed.  A socket id is    *)
(* the number of its connection; the empty string '' used as a room name   *)
(* is NoSocket.  Date values are readings of a logical clock.  A Map is a  *)
(* function on its keys; the order of its entries is not kept.             *)
(*                                                                         *)
(*   users    the users Map: user id -> User                               *)
(*   clients  the clients Map: user id -> socket id                        *)
(*   sockets  the connected sockets: socket id -> handshake userId         *)
(*   arrived  the number of connections that arrived so far                *)
(*   pending  the broadcastTrainingLevel calls suspended on their query,   *)
(*            in the order they started; they complete in any order        *)
(*   now      the clock                                                    *)
(*   emitted  what the last step emitted, in order, with its recipients    *)
(*   step     the last step: the operation, its socket, its user, a        *)
(*            detail, the ids of a broadcast, whether it raised, the rows  *)
(*            a query resolved with, and what getActiveUsers returned      *)
(*   handled  the number of events, requests and completions handled       *)
(*   listening  close() has not been called                                *)
(*   snapshot the users of the most recent ONLINE_USERS_UPDATE, if any     *)
(*   db       the user_training rows of RouteUser, where a specification   *)
(*            follows the table (SpecOverlap); elsewhere a query returns   *)
(*            any rows                                                     *)
(*                                                                         *)
(* Spec is the hub as the server wires it: the socket events and the       *)
(* training route.  SpecApi adds direct calls of the interface and the     *)
(* middleware's broadcast, SpecNotify calls broadcast with any list of     *)
(* ids, SpecLevel resolves lookups with every record set of up to          *)
(* MaxRecords rows, SpecClose closes the hub, SpecOverlap follows the      *)
(* moment each query reads the table.                                      *)
(*                                                                         *)
(* An async handler is two steps: the part before its await, and the part  *)
(* after it (FetchResolved, FetchRejected), which runs without             *)
(* interleaving since nothing else is awaited.                             *)
(***************************************************************************)
EXTENDS Integers, Sequences, FiniteSets, TLC

\* ------------------------------------------------------------------ bounds
MaxConns == 2
MaxClock == 1
MaxPending == 2
MaxList == 2
MaxEvents == 5
MaxRecords == 44

\* ------------------------------------------------------------------ values
U1 == <<"1">>
U2 == <<"a", "l", "i", "c", "e">>
Users == {U1, U2}
NoUser == <<>>
RouteUser == U1
Conns == 1..MaxConns
NoSocket == 0
Statuses == {"online", "away", "offline"}
CustomName == <<"B", "o", "b">>
NameArgs == {<<>>, <<CustomName>>}
NoTraining == <<>>
RecordSets ==
  { <<>>,
    <<"completed", "in_progress">>,
    <<"completed", "completed", "completed", "completed", "in_progress">> }
UserActiveMsg == "USER_ACTIVE"

\* the rows of a query that returned n records, c of them completed (the
\* computation counts rows, so their order is not varied)
Records(c, n) == [i \in 1..n |-> IF i <= c THEN "completed" ELSE "in_progress"]
RecordLists ==
  {Records(cn[1], cn[2]) : cn \in {x \in (0..MaxRecords) \X (0..MaxRecords) : x[1] <= x[2]}}

VARIABLES users, clients, sockets, arrived, pending, now, emitted, step, handled,
          listening, snapshot, db

vars == <<users, clients, sockets, arrived, pending, now, emitted, step, handled,
          listening, snapshot, db>>

\* ------------------------------------------------------------- Map helpers
MapHas(m, k) == k \in DOMAIN m
MapSet(m, k, v) == [x \in (DOMAIN m) \cup {k} |-> IF x = k THEN v ELSE m[x]]
MapDelete(m, k) == [x \in (DOMAIN m) \ {k} |-> m[x]]

\* clients.get(userId) || ''
ClientsGetOrEmpty(cl, u) == IF MapHas(cl, u) THEN cl[u] ELSE NoSocket

\* userId.slice(0, 4)
Slice04(s) == SubSeq(s, 1, IF Len(s) < 4 THEN Len(s) ELSE 4)

\* `User ${userId.slice(0, 4)}`
DefaultName(u) == <<"U", "s", "e", "r", " ">> \o Slice04(u)

\* ---------------------------------------------------------------- emission
\* sockets that are in the room named `room`: every connected socket is in
\* the room named by its own id, and nothing is in the room ''.
RoomMembers(sk, room) == {d \in DOMAIN sk : d = room}
AllSockets(sk) == DOMAIN sk

\* variant: the entry is sent as it is stored
StripNothing(e) == e

\* ({ socketId, ...user }) => user
Strip(e) ==
  [id |-> e.id, name |-> e.name, status |-> e.status, lastSeen |-> e.lastSeen,
   trainingLevel |-> e.trainingLevel]

Emission(ev, room, rcpt, snap, tl, msg) ==
  [ev |-> ev, room |-> room, rcpt |-> rcpt, users |-> snap, tl |-> tl, msg |-> msg]

\* variant: the snapshot holds the entries that are not offline
broadcastPresenceNotOffline(us, sk) ==
  Emission("ONLINE_USERS_UPDATE", NoSocket, AllSockets(sk),
           [u \in {x \in DOMAIN us : us[x].status # "offline"} |-> Strip(us[u])],
           NoTraining, "")

\* broadcastPresence(): io.emit('ONLINE_USERS_UPDATE', { users: activeUsers })
broadcastPresence(us, sk) ==
  Emission("ONLINE_USERS_UPDATE", NoSocket, AllSockets(sk),
           [u \in DOMAIN us |-> Strip(us[u])], NoTraining, "")

\* io.to(room).emit('training:level', trainingLevel)
EmitTrainingLevel(sk, room, tl) ==
  Emission("training:level", room, RoomMembers(sk, room), <<>>, <<tl>>, "")

\* io.to(socketId).emit('notification', message)
EmitNotification(sk, room, msg) ==
  Emission("notification", room, RoomMembers(sk, room), <<>>, NoTraining, msg)

\* ------------------------------------------------------------ training level
CompletedCount(recs) == Len(SelectSeq(recs, LAMBDA s : s = "completed"))

\* totalProgress is the double (completedCount / length) * 100: the quotient is
\* rounded to 53 bits, and so is the product.  When 100c/n is not a double the
\* product is within 2^-45 of it and compares and rounds as it does; when it is
\* one (an integer or a half) the product is that double or the one below it,
\* and DoubleBelow tells which.
Square(x) == x * x

\* 2^e modulo n, by repeated squaring
RECURSIVE Pow2Mod(_, _)
Pow2Mod(e, n) ==
  IF e = 0 THEN 1 % n
  ELSE (Square(Pow2Mod(e \div 2, n)) * (IF e % 2 = 1 THEN 2 ELSE 1)) % n

RECURSIVE Pow2(_)
Pow2(e) == IF e = 0 THEN 1 ELSE 2 * Pow2(e - 1)

\* the s with 2^-s <= c/n < 2^(1-s), for 0 < c <= n
RECURSIVE BinaryExponent(_, _, _)
BinaryExponent(c, n, s) == IF c * Pow2(s) >= n THEN s ELSE BinaryExponent(c, n, s + 1)

\* (c / n) * 100 in doubles is below 100c/n by more than half a step of the
\* doubles at 100c/n: the quotient c/n was rounded down by r / (n * 2^(52+s)),
\* r the remainder of c * 2^(52+s) by n, and 100 times that exceeds half a step
DoubleBelow(c, n) ==
  /\ 0 < c
  /\ c < n
  /\ LET s == BinaryExponent(c, n, 0)
         r == (c * Pow2Mod(52 + s, n)) % n
     IN  /\ 2 * r < n
         /\ 100 * r > n * (IF 100 * c * Pow2(s) >= 128 * n THEN 64 ELSE 32)

\* variant: the thresholds are exclusive
ProgressAbove(recs, k) ==
  IF Len(recs) > 0 THEN CompletedCount(recs) * 100 > k * Len(recs) ELSE 0 > k

\* totalProgress >= k, for totalProgress = (completedCount / length) * 100
ProgressAtLeast(recs, k) ==
  IF Len(recs) > 0
    THEN LET c == CompletedCount(recs)
             n == Len(recs)
         IN  \/ c * 100 > k * n
             \/ c * 100 = k * n /\ ~DoubleBelow(c, n)
    ELSE 0 >= k

\* variant: the count of completed rows is not divided by the number of rows
RoundedProgressUndivided(recs) == 100 * CompletedCount(recs)

\* Math.round(totalProgress): the nearest integer, a half goes up
RoundedProgress(recs) ==
  IF Len(recs) > 0
    THEN LET c == CompletedCount(recs)
             n == Len(recs)
             nearest == (2 * 100 * c + n) \div (2 * n)
         IN  IF (2 * 100 * c + n) % (2 * n) = 0 /\ DoubleBelow(c, n)
               THEN nearest - 1
               ELSE nearest
    ELSE 0

\* variant: the level is decided on the rounded progress
LevelOfRounded(recs) ==
  IF RoundedProgress(recs) >= 80 THEN "Expert"
  ELSE IF RoundedProgress(recs) >= 50 THEN "Intermediate"
  ELSE "Beginner"

\* let level = "Beginner"; if (totalProgress >= 80) ... else if (totalProgress >= 50) ...
LevelOf(recs) ==
  IF ProgressAtLeast(recs, 80) THEN "Expert"
  ELSE IF ProgressAtLeast(recs, 50) THEN "Intermediate"
  ELSE "Beginner"

TrainingLevel(recs) == [level |-> LevelOf(recs), progress |-> RoundedProgress(recs)]

\* --------------------------------------------------------------- interface
\* the entry registerUser stores
RegisteredEntry(cl, u, t) ==
  [id |-> u, name |-> DefaultName(u), status |-> "online",
   socketId |-> ClientsGetOrEmpty(cl, u), lastSeen |-> t, trainingLevel |-> NoTraining]

\* variant: unregisterUser deletes the entry
UnregisteredUsersDeleted(us, u, t) == MapDelete(us, u)

\* the users map after unregisterUser
UnregisteredUsers(us, u, t) ==
  IF MapHas(us, u)
    THEN MapSet(us, u, [us[u] EXCEPT !.status = "offline", !.lastSeen = t])
    ELSE us

\* variant: every entry counts as active
getActiveUsersAll(us) == {us[u].id : u \in DOMAIN us}

\* variant: every entry that is not offline counts as active
getActiveUsersNotOffline(us) == {us[u].id : u \in {x \in DOMAIN us : us[x].status # "offline"}}

\* getActiveUsers(): the ids of the entries whose status is online (the array
\* taken as the set of its elements)
getActiveUsers(us) == {us[u].id : u \in {x \in DOMAIN us : us[x].status = "online"}}

\* variant: the handshake is not checked
HasUserIdUnchecked(uid) == TRUE

\* if (!userId)
HasUserId(uid) == uid # NoUser

\* variant: the first connection of a user keeps the handle
AcceptedClientsKeepFirst(cl, uid, c) == IF MapHas(cl, uid) THEN cl ELSE MapSet(cl, uid, c)

\* clients.set(userId, socket.id)
AcceptedClients(cl, uid, c) == MapSet(cl, uid, c)

\* variant: every error counts as an error of the current handle
IsCurrentHandleUnchecked(cl, u, c) == TRUE

\* clients.get(userId) === socket.id
IsCurrentHandle(cl, u, c) == MapHas(cl, u) /\ cl[u] = c

\* variant: the push goes to the handle stored in the entry at registration
TrainingRoomStored(cl, us, u) == IF MapHas(us, u) THEN us[u].socketId ELSE NoSocket

\* the room broadcastTrainingLevel emits to: clients.get(userId) || ''
TrainingRoom(cl, us, u) == ClientsGetOrEmpty(cl, u)

\* readings of the clock a handler can get: time does not run backwards
Times == {t \in now..(now + 1) : t <= MaxClock}

Step(op, c, u, kind, ids, raised) ==
  [op |-> op, c |-> c, u |-> u, kind |-> kind, ids |-> ids, raised |-> raised,
   recs |-> <<>>, active |-> {}]

\* the users list the clients hold: that of the last ONLINE_USERS_UPDATE among
\* em, and the one held before (snap, none or one list) if there is none
SnapshotAfter(snap, em) ==
  LET ups == SelectSeq(em, LAMBDA e : e.ev = "ONLINE_USERS_UPDATE")
  IN  IF ups = <<>> THEN snap ELSE <<ups[Len(ups)].users>>

\* one more event, request or completion is handled; behaviours are followed
\* for MaxEvents of them
Counted == handled < MaxEvents /\ handled' = handled + 1

\* ------------------------------------------------------------------- Init
Init ==
  /\ users = <<>>
  /\ clients = <<>>
  /\ sockets = <<>>
  /\ arrived = 0
  /\ pending = <<>>
  /\ now = 0
  /\ emitted = <<>>
  /\ step = Step("init", 0, NoUser, "", <<>>, FALSE)
  /\ handled = 0
  /\ listening = TRUE
  /\ snapshot = <<>>
  /\ db = <<>>

\* ---------------------------------------------------------------- actions
\* io.on('connection'): uid is socket.handshake.query.userId, c the new socket
Connect(c, uid) ==
  /\ Counted
  /\ listening
  /\ arrived < MaxConns
  /\ c = arrived + 1
  /\ arrived' = c
  /\ IF HasUserId(uid)
       THEN /\ sockets' = MapSet(sockets, c, uid)
            /\ clients' = AcceptedClients(clients, uid, c)
            /\ step' = Step("connect", c, uid, "accepted", <<>>, FALSE)
       ELSE /\ step' = Step("connect", c, uid, "rejected", <<>>, FALSE)
            /\ UNCHANGED <<sockets, clients>>
  /\ emitted' = <<>>
  /\ UNCHANGED <<users, pending, now, listening, db>>
  /\ snapshot' = SnapshotAfter(snapshot, emitted')

\* variant: a join of a user with an entry keeps the name of the entry
JoinedUsersKeepName(us, cl, uid, nameArg, t) ==
  IF MapHas(us, uid)
    THEN MapSet(us, uid, [us[uid] EXCEPT !.status = "online", !.lastSeen = t])
    ELSE MapSet(us, uid, RegisteredEntry(cl, uid, t))

\* the users map after the synchronous part of the presence:join handler
JoinedUsers(us, cl, uid, nameArg, t) ==
  IF MapHas(us, uid)
    THEN MapSet(us, uid,
           [us[uid] EXCEPT !.status = "online",
                           !.name = IF nameArg = <<>> THEN DefaultName(uid) ELSE nameArg[1],
                           !.lastSeen = t])
    ELSE MapSet(us, uid, RegisteredEntry(cl, uid, t))

\* what the synchronous part of the presence:join handler emits: registerUser
\* broadcasts, the update of an existing entry does not
JoinEmissions(us, us2, sk, uid) ==
  IF MapHas(us, uid) THEN <<>> ELSE <<broadcastPresence(us2, sk)>>

\* socket.on('presence:join'), up to the await inside broadcastTrainingLevel
PresenceJoin(c, uid, nameArg, t) ==
  /\ Counted
  /\ c \in DOMAIN sockets
  /\ Len(pending) < MaxPending
  /\ users' = JoinedUsers(users, clients, uid, nameArg, t)
  /\ emitted' = JoinEmissions(users, users', sockets, uid)
  /\ pending' = Append(pending, [uid |-> uid, kind |-> "join", c |-> c, rows |-> <<>>])
  /\ now' = t
  /\ step' = Step("join", c, uid, IF MapHas(users, uid) THEN "existing" ELSE "new", <<>>, FALSE)
  /\ UNCHANGED <<clients, sockets, arrived, listening, db>>
  /\ snapshot' = SnapshotAfter(snapshot, emitted')

\* variant: unregisterUser drops the entry of a user that is already offline
unregisterUserPurging(u, t, sk) ==
  /\ users' = IF MapHas(users, u) /\ users[u].status = "offline"
                THEN MapDelete(users, u)
                ELSE UnregisteredUsers(users, u, t)
  /\ clients' = MapDelete(clients, u)
  /\ emitted' = <<broadcastPresence(users', sk)>>
  /\ now' = t

\* wsInterface.unregisterUser(u); sk are the sockets connected when it runs
unregisterUser(u, t, sk) ==
  /\ users' = UnregisteredUsers(users, u, t)
  /\ clients' = MapDelete(clients, u)
  /\ emitted' = <<broadcastPresence(users', sk)>>
  /\ now' = t

\* variant: a disconnect cancels the lookups its socket started
PendingCancelled(pd, c) == SelectSeq(pd, LAMBDA p : ~(p.kind = "join" /\ p.c = c))

\* the lookups still in flight after a socket disconnected: nothing cancels one
PendingAfterDisconnect(pd, c) == pd

\* socket.on('disconnect')
Disconnect(c, t) ==
  /\ Counted
  /\ c \in DOMAIN sockets
  /\ sockets' = MapDelete(sockets, c)
  /\ unregisterUser(sockets[c], t, sockets')
  /\ pending' = PendingAfterDisconnect(pending, c)
  /\ step' = Step("disconnect", c, sockets[c], "", <<>>, FALSE)
  /\ UNCHANGED <<arrived, listening, db>>
  /\ snapshot' = SnapshotAfter(snapshot, emitted')

\* variant: a status event of a user without an entry registers the user
PresenceStatusUpsert(c, status, t) ==
  /\ Counted
  /\ c \in DOMAIN sockets
  /\ LET u == sockets[c]
         e == IF MapHas(users, u) THEN users[u] ELSE RegisteredEntry(clients, u, t)
     IN  /\ users' = MapSet(users, u, [e EXCEPT !.status = status, !.lastSeen = t])
         /\ emitted' = <<broadcastPresence(users', sockets)>>
         /\ now' = t
         /\ step' = Step("status", c, u, status, <<>>, FALSE)
  /\ UNCHANGED <<clients, sockets, arrived, pending, listening, db>>
  /\ snapshot' = SnapshotAfter(snapshot, emitted')

\* variant: a status event changes the entry without a presence broadcast
PresenceStatusSilent(c, status, t) ==
  /\ Counted
  /\ c \in DOMAIN sockets
  /\ LET u == sockets[c]
     IN  /\ IF MapHas(users, u)
              THEN /\ users' = MapSet(users, u,
                                 [users[u] EXCEPT !.status = status, !.lastSeen = t])
                   /\ now' = t
              ELSE UNCHANGED <<users, now>>
         /\ emitted' = <<>>
         /\ step' = Step("status", c, u, status, <<>>, FALSE)
  /\ UNCHANGED <<clients, sockets, arrived, pending, listening, db>>
  /\ snapshot' = SnapshotAfter(snapshot, emitted')

\* socket.on('presence:status')
PresenceStatus(c, status, t) ==
  /\ Counted
  /\ c \in DOMAIN sockets
  /\ LET u == sockets[c]
     IN  /\ IF MapHas(users, u)
              THEN /\ users' = MapSet(users, u,
                                 [users[u] EXCEPT !.status = status, !.lastSeen = t])
                   /\ emitted' = <<broadcastPresence(users', sockets)>>
                   /\ now' = t
              ELSE /\ emitted' = <<>>
                   /\ UNCHANGED <<users, now>>
         /\ step' = Step("status", c, u, status, <<>>, FALSE)
  /\ UNCHANGED <<clients, sockets, arrived, pending, listening, db>>
  /\ snapshot' = SnapshotAfter(snapshot, emitted')

\* socket.on('error')
SocketError(c, t) ==
  /\ Counted
  /\ c \in DOMAIN sockets
  /\ LET u == sockets[c]
     IN  IF IsCurrentHandle(clients, u, c)
           THEN /\ unregisterUser(u, t, sockets)
                /\ step' = Step("error", c, u, "current", <<>>, FALSE)
           ELSE /\ emitted' = <<>>
                /\ step' = Step("error", c, u, "stale", <<>>, FALSE)
                /\ UNCHANGED <<users, clients, now>>
  /\ UNCHANGED <<sockets, arrived, pending, listening, db>>
  /\ snapshot' = SnapshotAfter(snapshot, emitted')

\* variant: broadcast without the if (socketId) test
NotificationsUnchecked(cl, sk, ids, msg) ==
  [i \in 1..Len(ids) |-> EmitNotification(sk, ClientsGetOrEmpty(cl, ids[i]), msg)]

\* the emissions of wsInterface.broadcast(userIds, message)
RECURSIVE Notifications(_, _, _, _)
Notifications(cl, sk, ids, msg) ==
  IF ids = <<>> THEN <<>>
  ELSE (IF MapHas(cl, Head(ids))
          THEN <<EmitNotification(sk, cl[Head(ids)], msg)>>
          ELSE <<>>) \o Notifications(cl, sk, Tail(ids), msg)

\* wsInterface.broadcast(userIds, message), with the message of the x-user-id
\* middleware, which passes the one id of the header
Broadcast(ids) ==
  /\ Counted
  /\ emitted' = Notifications(clients, sockets, ids, UserActiveMsg)
  /\ step' = Step("broadcast", 0, NoUser, "", ids, FALSE)
  /\ UNCHANGED <<users, clients, sockets, arrived, pending, now, listening, db>>
  /\ snapshot' = SnapshotAfter(snapshot, emitted')

\* broadcastTrainingLevel(req.user.id) of the route up to its await
RouteLookupStarted ==
  /\ Counted
  /\ Len(pending) < MaxPending
  /\ pending' = Append(pending, [uid |-> RouteUser, kind |-> "route", c |-> 0, rows |-> <<>>])
  /\ emitted' = <<>>
  /\ step' = Step("progress", 0, RouteUser, "", <<>>, FALSE)
  /\ UNCHANGED <<users, clients, sockets, arrived, now, listening>>
  /\ snapshot' = SnapshotAfter(snapshot, emitted')

\* POST /api/training/progress after its insert: broadcastTrainingLevel(req.user.id)
\* up to its await
TrainingProgress ==
  /\ RouteLookupStarted
  /\ UNCHANGED db

\* POST /api/training/progress with its insert followed: a row with the status
\* of the request is added for the user, then broadcastTrainingLevel(req.user.id)
\* runs up to its await
TrainingProgressSaved(status) ==
  /\ db' = Append(db, status)
  /\ RouteLookupStarted

\* the database runs the query of lookup i: it returns the rows the user has now
QueryRead(i) ==
  /\ i \in 1..Len(pending)
  /\ pending[i].rows = <<>>
  /\ pending' = [pending EXCEPT ![i].rows = <<db>>]
  /\ UNCHANGED <<users, clients, sockets, arrived, now, emitted, step, handled,
                 listening, snapshot, db>>

RemoveAt(s, i) == SubSeq(s, 1, i - 1) \o SubSeq(s, i + 1, Len(s))

\* variant: the summary is stored for users that are not offline only
SummaryStoredUnlessOffline(us, u, tl) ==
  IF MapHas(us, u) /\ us[u].status # "offline"
    THEN MapSet(us, u, [us[u] EXCEPT !.trainingLevel = <<tl>>])
    ELSE us

\* variant: the summary is stored without the if (user) test
SummaryStoredUnguarded(us, u, tl) ==
  MapSet(us, u,
    IF MapHas(us, u)
      THEN [us[u] EXCEPT !.trainingLevel = <<tl>>]
      ELSE [id |-> u, name |-> <<>>, status |-> "offline", socketId |-> NoSocket,
            lastSeen |-> 0, trainingLevel |-> <<tl>>])

\* variant: the entry written back is the one the join left, its status online
SummaryStoredOverStatus(us, u, tl) ==
  IF MapHas(us, u)
    THEN MapSet(us, u, [us[u] EXCEPT !.trainingLevel = <<tl>>, !.status = "online"])
    ELSE us

\* variant: a summary is stored only in an entry that has none
SummaryStoredOnce(us, u, tl) ==
  IF MapHas(us, u) /\ us[u].trainingLevel = NoTraining
    THEN MapSet(us, u, [us[u] EXCEPT !.trainingLevel = <<tl>>])
    ELSE us

\* the users map after broadcastTrainingLevel stored the summary
SummaryStored(us, u, tl) ==
  IF MapHas(us, u) THEN MapSet(us, u, [us[u] EXCEPT !.trainingLevel = <<tl>>]) ELSE us

\* variant: the join handler ends at the await
JoinTailMissing(kind, us, sk) == <<>>

\* what runs after the await of presence:join returned: broadcastPresence()
JoinTail(kind, us, sk) == IF kind = "join" THEN <<broadcastPresence(us, sk)>> ELSE <<>>

\* broadcastTrainingLevel after the query resolved with recs; for a join, the
\* rest of the presence:join handler as well
FetchResolved(i, recs) ==
  /\ Counted
  /\ i \in 1..Len(pending)
  /\ LET p == pending[i]
         tl == TrainingLevel(recs)
     IN  /\ users' = SummaryStored(users, p.uid, tl)
         /\ emitted' = <<EmitTrainingLevel(sockets, TrainingRoom(clients, users, p.uid), tl)>>
                         \o JoinTail(p.kind, users', sockets)
         /\ step' = [Step("resolved", p.c, p.uid, p.kind, <<>>, FALSE) EXCEPT !.recs = recs]
  /\ pending' = RemoveAt(pending, i)
  /\ UNCHANGED <<clients, sockets, arrived, now, listening, db>>
  /\ snapshot' = SnapshotAfter(snapshot, emitted')

\* variant: no try/catch around the query
CatchBlockMissing(us, u) == [users |-> us, raised |-> TRUE]

\* the catch block of broadcastTrainingLevel: console.error, nothing else
CatchBlock(us, u) == [users |-> us, raised |-> FALSE]

\* broadcastTrainingLevel after the query rejected; for a join, the rest of the
\* presence:join handler as well, unless the rejection propagated
FetchRejected(i) ==
  /\ Counted
  /\ i \in 1..Len(pending)
  /\ LET p == pending[i]
         r == CatchBlock(users, p.uid)
     IN  /\ users' = r.users
         /\ emitted' = IF r.raised THEN <<>> ELSE JoinTail(p.kind, users', sockets)
         /\ step' = Step("rejected", p.c, p.uid, p.kind, <<>>, r.raised)
  /\ pending' = RemoveAt(pending, i)
  /\ UNCHANGED <<clients, sockets, arrived, now, listening, db>>
  /\ snapshot' = SnapshotAfter(snapshot, emitted')

IdLists == UNION {[1..n -> Users] : n \in 0..MaxList}

\* the socket events and the training-progress route with their lookups; the
\* notifications of broadcast, which change neither map, are followed in
\* NextNotify and NextApi
Next ==
  \/ \E c \in Conns, uid \in Users \cup {NoUser} : Connect(c, uid)
  \/ \E c \in Conns, uid \in Users, n \in NameArgs, t \in Times : PresenceJoin(c, uid, n, t)
  \/ \E c \in Conns, t \in Times : Disconnect(c, t)
  \/ \E c \in Conns, s \in Statuses, t \in Times : PresenceStatus(c, s, t)
  \/ \E c \in Conns, t \in Times : SocketError(c, t)
  \/ TrainingProgress
  \/ \E i \in 1..MaxPending, recs \in RecordSets : FetchResolved(i, recs)
  \/ \E i \in 1..MaxPending : FetchRejected(i)

Spec == Init /\ [][Next]_vars

\* ------------------------------------------- the interface, called directly
\* variant: registerUser keeps the name and the summary of an entry it finds
RegisterUserMerging(u, t) ==
  /\ Counted
  /\ users' = MapSet(users, u,
                 IF MapHas(users, u)
                   THEN [users[u] EXCEPT !.status = "online", !.lastSeen = t]
                   ELSE RegisteredEntry(clients, u, t))
  /\ emitted' = <<broadcastPresence(users', sockets)>>
  /\ now' = t
  /\ step' = Step("register", 0, u,
                  IF step.op = "register" /\ step.u = u THEN "again" ELSE "first",
                  <<>>, FALSE)
  /\ UNCHANGED <<clients, sockets, arrived, pending, listening, db>>
  /\ snapshot' = SnapshotAfter(snapshot, emitted')

\* wsInterface.registerUser(u); the step tells a call that directly follows a
\* call for the same user from a first one
RegisterUser(u, t) ==
  /\ Counted
  /\ users' = MapSet(users, u, RegisteredEntry(clients, u, t))
  /\ emitted' = <<broadcastPresence(users', sockets)>>
  /\ now' = t
  /\ step' = Step("register", 0, u,
                  IF step.op = "register" /\ step.u = u THEN "again" ELSE "first",
                  <<>>, FALSE)
  /\ UNCHANGED <<clients, sockets, arrived, pending, listening, db>>
  /\ snapshot' = SnapshotAfter(snapshot, emitted')

\* wsInterface.unregisterUser(u); the step tells a call that directly follows
\* a call for the same user from a first one
UnregisterUser(u, t) ==
  /\ Counted
  /\ unregisterUser(u, t, sockets)
  /\ step' = Step("unregister", 0, u,
                  IF step.op = "unregister" /\ step.u = u THEN "again" ELSE "first",
                  <<>>, FALSE)
  /\ UNCHANGED <<sockets, arrived, pending, listening, db>>
  /\ snapshot' = SnapshotAfter(snapshot, emitted')

\* wsInterface.getActiveUsers(), as GET /api/users/online-status calls it
GetActiveUsers ==
  /\ Counted
  /\ step' = [Step("active", 0, NoUser, "", <<>>, FALSE) EXCEPT !.active = getActiveUsers(users)]
  /\ emitted' = <<>>
  /\ UNCHANGED <<users, clients, sockets, arrived, pending, now, listening, db>>
  /\ snapshot' = SnapshotAfter(snapshot, emitted')

\* the sockets in the order the server holds them, the order they connected in
RECURSIVE ClosedInTurn(_, _, _, _)
\* io.close(): every connected socket is closed in turn, and the disconnect
\* handler of each runs with the sockets closed before it gone: the maps it
\* leaves, and the broadcasts of the handlers in order
ClosedInTurn(us, cl, sk, t) ==
  IF DOMAIN sk = {}
    THEN [users |-> us, clients |-> cl, emitted |-> <<>>]
    ELSE LET c == CHOOSE d \in DOMAIN sk : \A e \in DOMAIN sk : d <= e
             sk2 == MapDelete(sk, c)
             us2 == UnregisteredUsers(us, sk[c], t)
             r == ClosedInTurn(us2, MapDelete(cl, sk[c]), sk2, t)
         IN  [users |-> r.users, clients |-> r.clients,
              emitted |-> <<broadcastPresence(us2, sk2)>> \o r.emitted]

\* variant: close() stops the server from accepting and leaves the connected
\* sockets open
CloseListenerOnly(t) ==
  /\ Counted
  /\ listening
  /\ listening' = FALSE
  /\ emitted' = <<>>
  /\ step' = Step("close", 0, NoUser, "", <<>>, FALSE)
  /\ UNCHANGED <<users, clients, sockets, arrived, pending, now, db>>
  /\ snapshot' = SnapshotAfter(snapshot, emitted')

\* wsInterface.close(): io.close() closes every connected socket, whose
\* disconnect handlers run, and the http server
Close(t) ==
  /\ Counted
  /\ listening
  /\ listening' = FALSE
  /\ LET r == ClosedInTurn(users, clients, sockets, t)
     IN  /\ users' = r.users
         /\ clients' = r.clients
         /\ emitted' = r.emitted
  /\ sockets' = <<>>
  /\ now' = IF DOMAIN sockets = {} THEN now ELSE t
  /\ step' = Step("close", 0, NoUser, "", <<>>, FALSE)
  /\ UNCHANGED <<arrived, pending, db>>
  /\ snapshot' = SnapshotAfter(snapshot, emitted')

\* the hub with a caller that closes it: sockets connect and join, lookups
\* complete, and registerUser, broadcastTrainingLevel, broadcast and close
\* are called
NextClose ==
  \/ \E c \in Conns, uid \in Users : Connect(c, uid)
  \/ \E c \in Conns, uid \in Users, t \in Times : PresenceJoin(c, uid, <<>>, t)
  \/ \E u \in Users : Broadcast(<<u>>)
  \/ TrainingProgress
  \/ \E i \in 1..MaxPending, recs \in RecordSets : FetchResolved(i, recs)
  \/ \E i \in 1..MaxPending : FetchRejected(i)
  \/ \E u \in Users, t \in Times : RegisterUser(u, t)
  \/ \E t \in Times : Close(t)

SpecClose == Init /\ [][NextClose]_vars

\* ------------------------------------- lookups that overlap, the table followed
\* the user connects and joins, the route saves progress and starts its lookup,
\* the database runs each query at some moment between its start and its
\* completion, and each lookup resolves with the rows its query returned
NextOverlap ==
  \/ \E c \in Conns : Connect(c, RouteUser)
  \/ \E c \in Conns, t \in Times : PresenceJoin(c, RouteUser, <<>>, t)
  \/ \E s \in {"completed", "in_progress"} : TrainingProgressSaved(s)
  \/ \E i \in 1..MaxPending : QueryRead(i)
  \/ \E i \in 1..MaxPending :
       /\ i \in 1..Len(pending)
       /\ pending[i].rows # <<>>
       /\ FetchResolved(i, pending[i].rows[1])

SpecOverlap == Init /\ [][NextOverlap]_vars

\* the hub with its interface open to any caller: every operation, with
\* sockets of known users that join under the default name and go away, and
\* lookups that resolve with one record set
ApiRecords == Records(4, 5)

NextApi ==
  \/ \E c \in Conns, uid \in Users : Connect(c, uid)
  \/ \E c \in Conns, uid \in Users, t \in Times : PresenceJoin(c, uid, <<>>, t)
  \/ \E c \in Conns, t \in Times : Disconnect(c, t)
  \/ \E c \in Conns, t \in Times : PresenceStatus(c, "away", t)
  \/ \E c \in Conns, t \in Times : SocketError(c, t)
  \/ \E u \in Users : Broadcast(<<u>>)
  \/ TrainingProgress
  \/ \E i \in 1..MaxPending : FetchResolved(i, ApiRecords)
  \/ \E i \in 1..MaxPending : FetchRejected(i)
  \/ \E u \in Users, t \in Times : RegisterUser(u, t)
  \/ \E u \in Users, t \in Times : UnregisterUser(u, t)
  \/ GetActiveUsers

SpecApi == Init /\ [][NextApi]_vars

\* ------------------------------------ the training level of every record set
\* one user joins and its lookups run one at a time, each resolving with any
\* record set of up to MaxRecords rows
NextLevel ==
  \/ Connect(1, RouteUser)
  \/ pending = <<>> /\ PresenceJoin(1, RouteUser, <<>>, now)
  \/ \E recs \in RecordLists : FetchResolved(1, recs)

SpecLevel == Init /\ [][NextLevel]_vars

\* --------------------------------------------- broadcast with any list of ids
\* connections come, go and fail, users are unregistered, and broadcast is
\* called with every list of up to MaxList ids
NextNotify ==
  \/ \E c \in Conns, uid \in Users \cup {NoUser} : Connect(c, uid)
  \/ \E c \in Conns, t \in Times : Disconnect(c, t)
  \/ \E c \in Conns, t \in Times : SocketError(c, t)
  \/ \E u \in Users, t \in Times : UnregisterUser(u, t)
  \/ \E ids \in IdLists : Broadcast(ids)

SpecNotify == Init /\ [][NextNotify]_vars

\* ================================================================= claims
EventOps == {"join", "status", "disconnect", "error"}

HasEntry(us, u) == u \in DOMAIN us
HasHandle(cl, u) == u \in DOMAIN cl
EmittedEvents(em) == {em[i].ev : i \in 1..Len(em)}
TargetedEvents == {"notification", "training:level"}

\* an ONLINE_USERS_UPDATE among em whose snapshot is the map us without handles
SnapshotEmitted(em, us) ==
  \E i \in 1..Len(em) :
    /\ em[i].ev = "ONLINE_USERS_UPDATE"
    /\ DOMAIN em[i].users = DOMAIN us
    /\ \A u \in DOMAIN us :
         /\ em[i].users[u].id = us[u].id
         /\ em[i].users[u].name = us[u].name
         /\ em[i].users[u].status = us[u].status
         /\ em[i].users[u].lastSeen = us[u].lastSeen
         /\ em[i].users[u].trainingLevel = us[u].trainingLevel

\* the handle map names only connected sockets of the user it is keyed by
HandlesAreLive ==
  \A u \in DOMAIN clients : clients[u] \in DOMAIN sockets /\ sockets[clients[u]] = u

\* ---- C1 -----------------------------------------------------------------
\* C1 as stated: over every sequence of events, getActiveUsers() is exactly the
\* set of users whose most recent lifecycle event was a join or a status update
\* with a status other than offline, with no disconnect or error on the current
\* handle afterwards.  Said event by event: a join adds its user, a status
\* other than offline adds the connection's user, a status offline, a disconnect
\* or an error on the current handle removes it, and nothing else changes the
\* result.
C1_ActiveIsLastLifecycle_Original ==
  [][LET a == getActiveUsers(users)
         b == getActiveUsers(users')
         u == step'.u
     IN  /\ step'.op = "join" => b = a \cup {u}
         /\ step'.op = "status" =>
              b = IF step'.kind # "offline" THEN a \cup {u} ELSE a \ {u}
         /\ step'.op = "disconnect" => b = a \ {u}
         /\ step'.op = "error" =>
              b = IF HasHandle(clients, u) /\ clients[u] = step'.c THEN a \ {u} ELSE a
         /\ step'.op \notin EventOps => b = a]_vars

\* C1 amended: a status update adds the connection's user only when the status
\* is online and the user already has a PresenceEntry; a status away or offline
\* removes the user; the rest is as stated.
C1_ActiveIsLastLifecycle ==
  [][LET a == getActiveUsers(users)
         b == getActiveUsers(users')
         u == step'.u
     IN  /\ step'.op = "join" => b = a \cup {u}
         /\ step'.op = "status" =>
              b = IF step'.kind = "online" /\ HasEntry(users, u)
                    THEN a \cup {u} ELSE a \ {u}
         /\ step'.op = "disconnect" => b = a \ {u}
         /\ step'.op = "error" =>
              b = IF HasHandle(clients, u) /\ clients[u] = step'.c THEN a \ {u} ELSE a
         /\ step'.op \notin EventOps => b = a]_vars

\* a user with an entry went away and is no longer reported
C1_Witness ==
  /\ step.op = "status" /\ step.kind = "away"
  /\ HasEntry(users, step.u)
  /\ users[step.u].status = "away"
  /\ step.u \notin getActiveUsers(users)
  /\ getActiveUsers(users) # {}

\* ---- C2 -----------------------------------------------------------------
\* C2: an error on the connection that is the user's recorded handle
\* unregisters the user (status offline, handle removed, presence broadcast);
\* an error on any other connection changes neither map and emits nothing.
C2_ErrorOnlyOnCurrentHandle ==
  [][step'.op = "error" =>
       LET u == step'.u
       IN  IF HasHandle(clients, u) /\ clients[u] = step'.c
             THEN /\ ~HasHandle(clients', u)
                  /\ HasEntry(users, u) => users'[u].status = "offline"
                  /\ DOMAIN users' = DOMAIN users
                  /\ SnapshotEmitted(emitted', users')
             ELSE /\ users' = users
                  /\ clients' = clients
                  /\ emitted' = <<>>]_vars

\* the first connection of a user who joined and reconnected has had an error,
\* and the user is still online on the second one
C2_Witness ==
  /\ step.op = "error"
  /\ HasEntry(users, step.u) /\ users[step.u].status = "online"
  /\ HasHandle(clients, step.u) /\ clients[step.u] # step.c
  /\ step.c \in DOMAIN sockets /\ sockets[step.c] = step.u

\* ---- C3 -----------------------------------------------------------------
\* C3: right after a connection c of user u is accepted, the handle of u is c;
\* and whoever receives a targeted push (notification, training:level) is the
\* recorded handle of its own user, never an earlier connection of that user.
C3_NewConnectionReplacesHandle ==
  /\ (step.op = "connect" /\ step.u # NoUser) =>
       HasHandle(clients, step.u) /\ clients[step.u] = step.c
  /\ \A i \in 1..Len(emitted) :
       emitted[i].ev \in TargetedEvents =>
         \A d \in emitted[i].rcpt :
           /\ d \in DOMAIN sockets
           /\ HasHandle(clients, sockets[d])
           /\ clients[sockets[d]] = d

\* a notification reached the second connection of a user whose first
\* connection is still open
C3_Witness ==
  /\ step.op = "broadcast"
  /\ \E i \in 1..Len(emitted), d \in DOMAIN sockets, e \in DOMAIN sockets :
       /\ emitted[i].rcpt = {d}
       /\ e < d
       /\ sockets[e] = sockets[d]
       /\ clients[sockets[d]] = d

\* ---- C4 -----------------------------------------------------------------
\* C4: a connection without a user id changes neither map, emits nothing and
\* is not connected afterwards; every event handled is an event of a connected
\* socket that has a user id.
C4_MissingUserIdRejected ==
  [][/\ (step'.op = "connect" /\ step'.u = NoUser) =>
          /\ users' = users
          /\ clients' = clients
          /\ emitted' = <<>>
          /\ step'.c \notin DOMAIN sockets'
     /\ step'.op \in EventOps =>
          /\ step'.c \in DOMAIN sockets
          /\ sockets[step'.c] # NoUser]_vars

\* a connection without a user id arrived while a user was connected
C4_Witness ==
  /\ step.op = "connect" /\ step.u = NoUser
  /\ step.c \notin DOMAIN sockets
  /\ DOMAIN sockets # {}
  /\ DOMAIN clients # {}

\* ---- C5 -----------------------------------------------------------------
\* the positions of ids that name a user whose recorded handle is d
PositionsOf(cl, ids, d) == {i \in 1..Len(ids) : HasHandle(cl, ids[i]) /\ cl[ids[i]] = d}
ReceivedBy(em, d) == {i \in 1..Len(em) : d \in em[i].rcpt}

\* C5: broadcast(ids, msg) emits one notification carrying msg per listed id
\* that has a handle, each received by that handle alone; a connection gets as
\* many as there are listed ids it is the handle of, so none for unlisted
\* users; ids without a handle are skipped; neither map changes.
C5_BroadcastTargetsListedHandles ==
  [][step'.op = "broadcast" =>
       LET ids == step'.ids
       IN  /\ users' = users
           /\ clients' = clients
           /\ ~step'.raised
           /\ Len(emitted') = Cardinality({i \in 1..Len(ids) : HasHandle(clients, ids[i])})
           /\ \A i \in 1..Len(emitted') :
                /\ emitted'[i].ev = "notification"
                /\ emitted'[i].msg = UserActiveMsg
                /\ Cardinality(emitted'[i].rcpt) = 1
           /\ \A d \in Conns :
                Cardinality(ReceivedBy(emitted', d)) = Cardinality(PositionsOf(clients, ids, d))]_vars

\* broadcast([u, v]) with only u connected, beside a connection of u that is
\* not the handle: one notification, received by the handle of u
C5_Witness ==
  /\ step.op = "broadcast"
  /\ Len(step.ids) = 2
  /\ HasHandle(clients, step.ids[1])
  /\ ~HasHandle(clients, step.ids[2])
  /\ Len(emitted) = 1
  /\ emitted[1].rcpt = {clients[step.ids[1]]}
  /\ Cardinality(DOMAIN sockets) = 2

\* ---- C6 -----------------------------------------------------------------
\* C6: when the fetch fails, nothing is raised to the caller, the presence map
\* (the stored summary and the status set by the join included) is left as it
\* was, no training:level is pushed, and a join still emits its presence
\* broadcast.
C6_FetchFailureAbsorbed ==
  [][step'.op = "rejected" =>
       /\ ~step'.raised
       /\ users' = users
       /\ clients' = clients
       /\ "training:level" \notin EmittedEvents(emitted')
       /\ step'.kind = "join" => SnapshotEmitted(emitted', users)]_vars

\* the fetch of a join failed for a user who is online and keeps an earlier
\* summary
C6_Witness ==
  /\ step.op = "rejected" /\ step.kind = "join"
  /\ HasEntry(users, step.u)
  /\ users[step.u].status = "online"
  /\ users[step.u].trainingLevel # NoTraining
  /\ SnapshotEmitted(emitted, users)

\* ---- C7 -----------------------------------------------------------------
\* an ONLINE_USERS_UPDATE among em that shows u online
ShowsOnline(em, u) ==
  \E i \in 1..Len(em) :
    /\ em[i].ev = "ONLINE_USERS_UPDATE"
    /\ u \in DOMAIN em[i].users
    /\ em[i].users[u].status = "online"

PendingJoinsOf(pd, c) == {i \in 1..Len(pd) : pd[i].kind = "join" /\ pd[i].c = c}

\* C8 as stated: no event of a connection is handled while a presence:join of
\* that connection is suspended on its fetch.
C8_EventsOfAConnectionSerialized_Original ==
  /\ step.op \in {"status", "disconnect", "error"} => PendingJoinsOf(pending, step.c) = {}
  /\ step.op = "join" => Cardinality(PendingJoinsOf(pending, step.c)) <= 1

\* C8 amended: a handler runs to its first suspension point only; while a
\* presence:join of a connection is suspended on its fetch, the status,
\* disconnect and error events of that connection are handled at once, with
\* their usual effect, and they neither complete nor cancel the suspended join.
C8_EventsOfAConnectionSerialized ==
  [][(step'.op \in {"status", "disconnect", "error"} /\ PendingJoinsOf(pending, step'.c) # {}) =>
       /\ pending' = pending
       /\ step'.op = "disconnect" =>
            /\ step'.c \notin DOMAIN sockets'
            /\ ~HasHandle(clients', step'.u)
            /\ HasEntry(users, step'.u) => users'[step'.u].status = "offline"
       /\ (step'.op = "status" /\ HasEntry(users, step'.u)) =>
            users'[step'.u].status = step'.kind]_vars

\* a connection disconnected while its own join is suspended on the fetch
C8_Witness ==
  /\ step.op = "disconnect"
  /\ PendingJoinsOf(pending, step.c) # {}
  /\ step.c \notin DOMAIN sockets

\* ---- C9 -----------------------------------------------------------------
\* C9: a disconnect leaves the lookups in flight; when a lookup resolves for a
\* user who has an entry, the entry gets the computed summary (the one pushed)
\* and is otherwise unchanged, so an offline status stays offline; with no
\* handle recorded the push reaches no connection; nothing is raised.
C9_LookupSurvivesDisconnect ==
  [][/\ step'.op = "disconnect" => pending' = pending
     /\ step'.op = "resolved" =>
          /\ ~step'.raised
          /\ emitted' # <<>>
          /\ emitted'[1].ev = "training:level"
          /\ emitted'[1].tl # NoTraining
          /\ HasEntry(users, step'.u) =>
               users' = [users EXCEPT ![step'.u].trainingLevel = emitted'[1].tl]
          /\ ~HasHandle(clients, step'.u) => emitted'[1].rcpt = {}]_vars

\* the lookup of a join resolved after its connection disconnected: the user is
\* offline, has the summary, and nobody received the push
C9_Witness ==
  /\ step.op = "resolved" /\ step.kind = "join"
  /\ step.c \notin DOMAIN sockets
  /\ HasEntry(users, step.u)
  /\ users[step.u].status = "offline"
  /\ users[step.u].trainingLevel # NoTraining
  /\ ~HasHandle(clients, step.u)
  /\ emitted[1].rcpt = {}

\* ---- C10 ----------------------------------------------------------------
\* C10: the training:level computed for u is received by the connection that
\* is the handle of u when the lookup completes, which is a connection of u,
\* and by no other; without a handle nobody receives it.
C10_TrainingLevelToCurrentHandle ==
  step.op = "resolved" =>
    /\ Len(emitted) >= 1
    /\ emitted[1].ev = "training:level"
    /\ \A i \in 2..Len(emitted) : emitted[i].ev # "training:level"
    /\ IF HasHandle(clients, step.u)
         THEN /\ emitted[1].rcpt = {clients[step.u]}
              /\ clients[step.u] \in DOMAIN sockets
              /\ sockets[clients[step.u]] = step.u
         ELSE emitted[1].rcpt = {}

\* the user reconnected during the fetch of its join: the push went to the new
\* connection while the joining one is still open, and a connection of another
\* user got nothing
C10_Witness ==
  /\ step.op = "resolved" /\ step.kind = "join"
  /\ HasHandle(clients, step.u)
  /\ clients[step.u] # step.c
  /\ step.c \in DOMAIN sockets
  /\ sockets[step.c] = step.u
  /\ emitted[1].rcpt = {clients[step.u]}
  /\ HasEntry(users, step.u) /\ users[step.u].socketId = step.c

\* ---- C11 ----------------------------------------------------------------
\* C11: no step removes a user id from the users map; unregisterUser(u) and
\* the disconnect of a socket of u leave u without a handle, leave an entry u
\* had in place with status offline, and emit a presence broadcast of the map
\* as they left it.
C11_EntriesNeverDeleted ==
  [][/\ DOMAIN users \subseteq DOMAIN users'
     /\ step'.op \in {"unregister", "disconnect"} =>
          /\ ~HasHandle(clients', step'.u)
          /\ \A v \in DOMAIN clients : v # step'.u => HasHandle(clients', v) /\ clients'[v] = clients[v]
          /\ HasEntry(users, step'.u) => users'[step'.u].status = "offline"
          /\ DOMAIN users' = DOMAIN users
          /\ SnapshotEmitted(emitted', users')]_vars

\* unregisterUser was called for a user that had joined and whose socket is
\* still connected: the entry is there, offline, and the handle is gone
C11_Witness ==
  /\ step.op = "unregister"
  /\ HasEntry(users, step.u)
  /\ users[step.u].status = "offline"
  /\ ~HasHandle(clients, step.u)
  /\ \E c \in DOMAIN sockets : sockets[c] = step.u
  /\ SnapshotEmitted(emitted, users)

\* ---- C12 ----------------------------------------------------------------
\* C12: a call of unregisterUser(u) that directly follows a call of
\* unregisterUser(u) leaves the handle map as the first call left it and every
\* entry as the first call left it but for its lastSeen, the entry of u, when
\* there is one, offline, and raises nothing.
C12_UnregisterIdempotent ==
  [][(step.op = "unregister" /\ step'.op = "unregister" /\ step'.u = step.u) =>
       /\ clients' = clients
       /\ DOMAIN users' = DOMAIN users
       /\ \A v \in DOMAIN users :
            users'[v] = [users[v] EXCEPT !.lastSeen = users'[v].lastSeen]
       /\ HasEntry(users', step'.u) => users'[step'.u].status = "offline"
       /\ ~step'.raised]_vars

\* the second of two calls in a row for a user with an entry ran at a later
\* reading of the clock: the entry is offline and carries the later reading
C12_Witness ==
  /\ step.op = "unregister"
  /\ step.kind = "again"
  /\ HasEntry(users, step.u)
  /\ users[step.u].status = "offline"
  /\ users[step.u].lastSeen = now
  /\ now > 0
  /\ ~HasHandle(clients, step.u)

\* ---- C13 ----------------------------------------------------------------
\* C13: every ONLINE_USERS_UPDATE emitted by a step carries one element for
\* every entry of the users map as the step left it, offline entries included,
\* and no other; the element has the id, name, status, lastSeen and
\* trainingLevel of its entry; and every connected socket receives it.
C13_PresenceIsFullSnapshot ==
  \A i \in 1..Len(emitted) :
    emitted[i].ev = "ONLINE_USERS_UPDATE" =>
      /\ DOMAIN emitted[i].users = DOMAIN users
      /\ \A u \in DOMAIN users :
           /\ emitted[i].users[u].id = users[u].id
           /\ emitted[i].users[u].name = users[u].name
           /\ emitted[i].users[u].status = users[u].status
           /\ emitted[i].users[u].lastSeen = users[u].lastSeen
           /\ emitted[i].users[u].trainingLevel = users[u].trainingLevel
      /\ emitted[i].rcpt = DOMAIN sockets

\* a snapshot that two connected sockets received holds an offline entry and
\* an entry with a training summary
C13_Witness ==
  /\ \E i \in 1..Len(emitted) :
       /\ emitted[i].ev = "ONLINE_USERS_UPDATE"
       /\ \E u \in DOMAIN emitted[i].users : emitted[i].users[u].status = "offline"
       /\ \E u \in DOMAIN emitted[i].users : emitted[i].users[u].trainingLevel # NoTraining
       /\ Cardinality(emitted[i].rcpt) = 2

\* ---- C14 ----------------------------------------------------------------
\* C14: no element of the users array of any ONLINE_USERS_UPDATE has a
\* socketId field.
C14_NoHandleInPresencePayload ==
  \A i \in 1..Len(emitted) :
    emitted[i].ev = "ONLINE_USERS_UPDATE" =>
      \A u \in DOMAIN emitted[i].users : "socketId" \notin DOMAIN emitted[i].users[u]

\* a snapshot was emitted while an entry of the users map held the id of a
\* socket, and its element for that entry has the other five fields
C14_Witness ==
  \E i \in 1..Len(emitted) :
    /\ emitted[i].ev = "ONLINE_USERS_UPDATE"
    /\ \E u \in DOMAIN users :
         /\ users[u].socketId # NoSocket
         /\ u \in DOMAIN emitted[i].users
         /\ DOMAIN emitted[i].users[u] = {"id", "name", "status", "lastSeen", "trainingLevel"}

\* ---- C15 ----------------------------------------------------------------
\* the summary a completed lookup computed, and the counts of its rows
Summary == emitted[1].tl[1]
Total == Len(step.recs)
Completed == Cardinality({i \in 1..Len(step.recs) : step.recs[i] = "completed"})

\* C15 as stated: the level of every computed summary follows the thresholds
\* applied to the progress of that summary, the rounded value: Expert exactly
\* when progress >= 80, Intermediate exactly when 50 <= progress < 80,
\* Beginner exactly when progress < 50
C15_LevelFollowsProgress_Original ==
  step.op = "resolved" =>
    /\ Summary.level = "Expert" <=> Summary.progress >= 80
    /\ Summary.level = "Intermediate" <=> (50 <= Summary.progress /\ Summary.progress < 80)
    /\ Summary.level = "Beginner" <=> Summary.progress < 50

\* C15 amended: for n rows, c of them completed, the level follows the
\* thresholds applied to the percentage 100c/n before it is rounded (0 when
\* n = 0): Expert exactly when 100c/n >= 80, Intermediate exactly when
\* 50 <= 100c/n < 80, Beginner exactly when 100c/n < 50.  The progress of the
\* summary is within one half of 100c/n, so that an Expert has progress >= 80
\* and a Beginner progress <= 50, and the entry of the user stores the summary.
C15_LevelFollowsUnroundedProgress ==
  step.op = "resolved" =>
    /\ Summary.level = "Expert" <=> (Total > 0 /\ 100 * Completed >= 80 * Total)
    /\ Summary.level = "Intermediate" <=>
         (Total > 0 /\ 100 * Completed >= 50 * Total /\ 100 * Completed < 80 * Total)
    /\ Summary.level = "Beginner" <=> (Total = 0 \/ 100 * Completed < 50 * Total)
    /\ 2 * Summary.progress * Total - 200 * Completed <= Total
    /\ 200 * Completed - 2 * Summary.progress * Total <= Total
    /\ Summary.level = "Expert" => Summary.progress >= 80
    /\ Summary.level = "Beginner" => Summary.progress <= 50
    /\ HasEntry(users, step.u) => users[step.u].trainingLevel = <<Summary>>

\* 35 of 44 rows are completed: 79.5..% is stored as progress 80 with level
\* Intermediate
C15_Witness ==
  /\ step.op = "resolved"
  /\ Completed = 35
  /\ Total = 44
  /\ Summary = [level |-> "Intermediate", progress |-> 80]
  /\ HasEntry(users, step.u)
  /\ users[step.u].trainingLevel = <<Summary>>

\* ---- C16 ----------------------------------------------------------------
\* C16: a lookup that resolves with 10 rows gives progress 80 and level Expert
\* when 8 are completed, 50 and Intermediate when 5 are, 40 and Beginner when
\* 4 are; one that resolves with no row gives progress 0 and level Beginner and
\* raises nothing.
C16_BoundariesInclusive ==
  step.op = "resolved" =>
    /\ (Total = 10 /\ Completed = 8) => Summary = [level |-> "Expert", progress |-> 80]
    /\ (Total = 10 /\ Completed = 5) => Summary = [level |-> "Intermediate", progress |-> 50]
    /\ (Total = 10 /\ Completed = 4) => Summary = [level |-> "Beginner", progress |-> 40]
    /\ Total = 0 => (Summary = [level |-> "Beginner", progress |-> 0] /\ ~step.raised)

\* the lookup of a joined user resolved with 8 completed rows of 10 and the
\* summary was pushed and stored
C16_Witness ==
  /\ step.op = "resolved"
  /\ Total = 10
  /\ Completed = 8
  /\ Len(emitted) >= 1
  /\ emitted[1].ev = "training:level"
  /\ HasEntry(users, step.u)
  /\ users[step.u].trainingLevel # NoTraining
  /\ users[step.u].trainingLevel[1].level = "Expert"

\* ---- C17 ----------------------------------------------------------------
\* C17: the progress of every summary stored in an entry, of every
\* training:level payload and of every summary inside a presence snapshot is
\* an integer from 0 to 100.
C17_ProgressInRange ==
  /\ \A u \in DOMAIN users :
       users[u].trainingLevel # NoTraining => users[u].trainingLevel[1].progress \in 0..100
  /\ \A i \in 1..Len(emitted) :
       /\ emitted[i].ev = "training:level" => emitted[i].tl[1].progress \in 0..100
       /\ emitted[i].ev = "ONLINE_USERS_UPDATE" =>
            \A u \in DOMAIN emitted[i].users :
              emitted[i].users[u].trainingLevel # NoTraining =>
                emitted[i].users[u].trainingLevel[1].progress \in 0..100

\* every row of a lookup with rows was completed: progress 100 was pushed and
\* stored, the upper end of the range
C17_Witness ==
  /\ step.op = "resolved"
  /\ Total > 1
  /\ Completed = Total
  /\ emitted[1].tl[1].progress = 100
  /\ HasEntry(users, step.u)
  /\ users[step.u].trainingLevel # NoTraining
  /\ users[step.u].trainingLevel[1].progress = 100

\* ---- C18 ----------------------------------------------------------------
\* C18: a presence:status event of a socket of u, when u has an entry, changes
\* of the users map the status of that entry, to the status given, and its
\* lastSeen, to the reading of the clock, and nothing else (name and
\* trainingLevel stay), and emits a presence broadcast of the new map; when u
\* has no entry it leaves the users map as it is and emits nothing.  In both
\* cases the handle map is unchanged.
C18_StatusChangesStatusOnly ==
  [][step'.op = "status" =>
       /\ clients' = clients
       /\ IF HasEntry(users, step'.u)
            THEN /\ DOMAIN users' = DOMAIN users
                 /\ \A v \in DOMAIN users : v # step'.u => users'[v] = users[v]
                 /\ users'[step'.u] = [users[step'.u] EXCEPT !.status = step'.kind,
                                                            !.lastSeen = now']
                 /\ now' >= now
                 /\ Len(emitted') = 1
                 /\ SnapshotEmitted(emitted', users')
            ELSE /\ users' = users
                 /\ emitted' = <<>>]_vars

\* a user with a custom name and a training summary went away at a later
\* reading of the clock: name and summary are still there
C18_Witness ==
  /\ step.op = "status"
  /\ step.kind = "away"
  /\ HasEntry(users, step.u)
  /\ users[step.u].status = "away"
  /\ users[step.u].name = CustomName
  /\ users[step.u].trainingLevel # NoTraining
  /\ users[step.u].lastSeen = now
  /\ SnapshotEmitted(emitted, users)

\* ---- C19 ----------------------------------------------------------------
\* "User " followed by the first 4 characters of the id, written out
ExpectedDefaultName(u) ==
  IF u = <<"1">> THEN <<"U", "s", "e", "r", " ", "1">>
  ELSE IF u = <<"a", "l", "i", "c", "e">> THEN <<"U", "s", "e", "r", " ", "a", "l", "i", "c">>
  ELSE <<>>

\* C19: a presence:join for a user without an entry creates the entry with
\* status online and the name "User " + the first 4 characters of the id; a
\* presence:join for a user with an entry changes of that entry the status, to
\* online, the name, to the name supplied or to that default name when none is
\* supplied, and lastSeen, to the reading of the clock, and leaves its
\* trainingLevel, and every other entry, as they were.
C19_JoinCreatesOrUpdates ==
  [][\A c \in {step'.c}, uid \in {step'.u}, n \in NameArgs, t \in {now'} :
       (step'.op = "join" /\ PresenceJoin(c, uid, n, t)) =>
         /\ DOMAIN users' = DOMAIN users \cup {uid}
         /\ \A v \in DOMAIN users : v # uid => users'[v] = users[v]
         /\ users'[uid].status = "online"
         /\ users'[uid].lastSeen = t
         /\ IF HasEntry(users, uid)
              THEN /\ users'[uid].name = IF n = <<>> THEN ExpectedDefaultName(uid) ELSE n[1]
                   /\ users'[uid].trainingLevel = users[uid].trainingLevel
                   /\ users'[uid].id = users[uid].id
                   /\ users'[uid].socketId = users[uid].socketId
              ELSE /\ users'[uid].name = ExpectedDefaultName(uid)
                   /\ users'[uid].id = uid
                   /\ users'[uid].trainingLevel = NoTraining]_vars

\* a user that has a training summary joined again under a supplied name: the
\* entry is online under that name and the summary is still there while the
\* lookup of this join is pending
C19_Witness ==
  /\ step.op = "join"
  /\ step.kind = "existing"
  /\ users[step.u].status = "online"
  /\ users[step.u].name = CustomName
  /\ users[step.u].trainingLevel # NoTraining
  /\ users[step.u].lastSeen = now
  /\ \E i \in 1..Len(pending) : pending[i].uid = step.u /\ pending[i].kind = "join"

\* ---- C20 ----------------------------------------------------------------
\* C20: getActiveUsers() returns the ids of the entries whose status is
\* online, and of no other entry, and leaves the users map, the handle map,
\* the sockets and the pending lookups as they are, and emits nothing.
C20_ActiveUsersIsPureRead ==
  [][step'.op = "active" =>
       /\ step'.active = {u \in DOMAIN users : users[u].status = "online"}
       /\ users' = users
       /\ clients' = clients
       /\ sockets' = sockets
       /\ pending' = pending
       /\ now' = now
       /\ emitted' = <<>>]_vars

\* getActiveUsers() was called while one entry was online and another away or
\* offline: it returned the first id only
C20_Witness ==
  /\ step.op = "active"
  /\ step.active # {}
  /\ \E u \in DOMAIN users : users[u].status = "away" /\ u \notin step.active
  /\ \A u \in step.active : users[u].status = "online"
  /\ emitted = <<>>

\* ---- C21 ----------------------------------------------------------------
\* C21: registerUser(u) leaves u with an entry that is online, under the name
\* "User " + the first 4 characters of u, without a training summary, with
\* the handle of u, or '' when u has none, and the reading of the clock,
\* whatever entry u had; it leaves every other entry and the handle map as
\* they were and emits a presence broadcast of the new map.  A call that
\* directly follows a call for the same user leaves the users map as the first
\* call left it but for the lastSeen of u.
C21_RegisterOverwrites ==
  [][step'.op = "register" =>
       LET u == step'.u
       IN  /\ DOMAIN users' = DOMAIN users \cup {u}
           /\ \A v \in DOMAIN users : v # u => users'[v] = users[v]
           /\ users'[u] = [id |-> u, name |-> ExpectedDefaultName(u), status |-> "online",
                           socketId |-> IF HasHandle(clients, u) THEN clients[u] ELSE NoSocket,
                           lastSeen |-> now', trainingLevel |-> NoTraining]
           /\ clients' = clients
           /\ Len(emitted') = 1
           /\ SnapshotEmitted(emitted', users')
           /\ (step.op = "register" /\ step.u = u) =>
                /\ DOMAIN users' = DOMAIN users
                /\ users'[u] = [users[u] EXCEPT !.lastSeen = now']]_vars

\* registerUser was called twice in a row for a user with a connection, the
\* second time at a later reading of the clock
C21_Witness ==
  /\ step.op = "register"
  /\ step.kind = "again"
  /\ HasEntry(users, step.u)
  /\ users[step.u].status = "online"
  /\ users[step.u].trainingLevel = NoTraining
  /\ users[step.u].socketId # NoSocket
  /\ users[step.u].lastSeen = now
  /\ now > 0

\* ---- C22 ----------------------------------------------------------------
\* the user has neither an entry nor a handle
Missing(us, cl, u) == ~HasEntry(us, u) /\ ~HasHandle(cl, u)

\* C22: unregisterUser(u), a presence:status event of a socket of u, a
\* completion of broadcastTrainingLevel(u) and broadcast with u in its list,
\* when u has neither an entry nor a handle, raise nothing and leave the users
\* map with the same ids; the status event and the broadcast emit nothing for
\* u, and the training:level of u reaches nobody.  getActiveUsers() raises
\* nothing and leaves the users map as it is.
C22_TotalForMissingUser ==
  [][/\ (step'.op \in {"unregister", "status", "resolved", "rejected"}
           /\ Missing(users, clients, step'.u)) =>
          /\ ~step'.raised
          /\ DOMAIN users' = DOMAIN users
          /\ ~HasEntry(users', step'.u)
          /\ step'.op = "status" => emitted' = <<>>
          /\ step'.op = "resolved" => emitted'[1].rcpt = {}
     /\ step'.op = "broadcast" =>
          /\ ~step'.raised
          /\ users' = users
          /\ (\A i \in 1..Len(step'.ids) : Missing(users, clients, step'.ids[i])) => emitted' = <<>>
     /\ step'.op = "active" => (~step'.raised /\ users' = users)]_vars

\* the lookup that the training route started for a user without entry and
\* handle resolved while a socket of another user was connected: nothing was
\* stored and nobody received the summary
C22_Witness ==
  /\ step.op = "resolved"
  /\ step.kind = "route"
  /\ Missing(users, clients, step.u)
  /\ ~step.raised
  /\ DOMAIN sockets # {}
  /\ Len(emitted) = 1
  /\ emitted[1].rcpt = {}

\* ---- C23 ----------------------------------------------------------------
Delivered(em) == UNION {em[i].rcpt : i \in 1..Len(em)}

\* C23: once close() has returned, no socket is connected and no handle is
\* recorded, and no later operation (a lookup in flight at the time of close
\* that completes, a broadcast, a registerUser) delivers an event to any
\* client; the only events of the call itself are the ONLINE_USERS_UPDATE of
\* the disconnect handlers it runs, sent to the sockets it has not closed yet.
C23_NothingDeliveredAfterClose ==
  ~listening =>
    /\ DOMAIN sockets = {}
    /\ DOMAIN clients = {}
    /\ step.op # "close" => Delivered(emitted) = {}
    /\ step.op = "close" => EmittedEvents(emitted) \subseteq {"ONLINE_USERS_UPDATE"}

\* a join's lookup in flight at the time of close resolves after it: the summary
\* is stored, training:level and ONLINE_USERS_UPDATE are emitted to nobody
C23_Witness ==
  /\ ~listening
  /\ step.op = "resolved"
  /\ step.kind = "join"
  /\ HasEntry(users, step.u)
  /\ users[step.u].trainingLevel # NoTraining
  /\ EmittedEvents(emitted) = {"training:level", "ONLINE_USERS_UPDATE"}
  /\ Delivered(emitted) = {}

\* ---- C24 ----------------------------------------------------------------
\* C24 as stated: a disconnect of a connection of a user that is not the user's
\* current handle, while the current handle's connection is open, leaves the
\* handle mapping and the status of the user as they were.
C24_SupersededDisconnectKeepsHandle ==
  [][(/\ step'.op = "disconnect"
      /\ HasHandle(clients, step'.u)
      /\ clients[step'.u] # step'.c
      /\ clients[step'.u] \in DOMAIN sockets') =>
       /\ HasHandle(clients', step'.u)
       /\ clients'[step'.u] = clients[step'.u]
       /\ HasEntry(users, step'.u) =>
            users'[step'.u].status = users[step'.u].status]_vars

\* ---- C25 ----------------------------------------------------------------
\* C25 as stated: in every reachable state every user whose entry has status
\* online or away has a handle in clients.
C25_ActiveUsersHaveHandles ==
  \A u \in DOMAIN users :
    users[u].status \in {"online", "away"} => HasHandle(clients, u)

\* ---- C26 ----------------------------------------------------------------
SameFor(m1, m2, v) == (v \in DOMAIN m1 <=> v \in DOMAIN m2) /\ (v \in DOMAIN m1 => m1[v] = m2[v])

\* C26 as stated: a presence:join, presence:status, disconnect or error event of
\* a connection established for user u leaves the entry and the handle mapping
\* of every other user v as they were.
C26_ConnectionChangesOwnUserOnly ==
  [][(step'.op \in EventOps /\ step'.c \in DOMAIN sockets) =>
       \A v \in Users :
         v # sockets[step'.c] =>
           SameFor(users, users', v) /\ SameFor(clients, clients', v)]_vars

\* ---- C27 ----------------------------------------------------------------
\* the entry e of a snapshot and the entry r of the users map agree in every
\* field of the payload but the training summary
SamePresence(e, r) ==
  /\ e.id = r.id
  /\ e.name = r.name
  /\ e.status = r.status
  /\ e.lastSeen = r.lastSeen

\* C27 as stated: whenever no fetch is pending, the most recently emitted
\* ONLINE_USERS_UPDATE snapshot, if there is one, equals the users map with the
\* handles stripped.
C27_SnapshotCurrentWhenIdle_Original ==
  (pending = <<>> /\ snapshot # <<>>) =>
    /\ DOMAIN snapshot[1] = DOMAIN users
    /\ \A u \in DOMAIN users :
         /\ SamePresence(snapshot[1][u], users[u])
         /\ snapshot[1][u].trainingLevel = users[u].trainingLevel

\* C27 amended: whenever no fetch is pending, the most recently emitted
\* snapshot has the users of the users map, each with the id, name, status and
\* lastSeen of its entry (and while none was emitted the map is empty); the
\* training summary of an entry can be newer than the one in the snapshot,
\* since broadcastTrainingLevel called from the route stores it without a
\* presence broadcast.
C27_SnapshotCurrentButSummary ==
  pending = <<>> =>
    /\ snapshot = <<>> => DOMAIN users = {}
    /\ snapshot # <<>> =>
         /\ DOMAIN snapshot[1] = DOMAIN users
         /\ \A u \in DOMAIN users :
              /\ SamePresence(snapshot[1][u], users[u])
              /\ snapshot[1][u].trainingLevel # users[u].trainingLevel =>
                   users[u].trainingLevel # NoTraining

\* a lookup started by the route resolved with no fetch left pending: the entry
\* holds its summary, the last snapshot the one of the join's lookup
C27_Witness ==
  /\ pending = <<>>
  /\ step.op = "resolved"
  /\ step.kind = "route"
  /\ snapshot # <<>>
  /\ HasEntry(users, step.u)
  /\ step.u \in DOMAIN snapshot[1]
  /\ snapshot[1][step.u].trainingLevel # NoTraining
  /\ snapshot[1][step.u].trainingLevel # users[step.u].trainingLevel

\* ---- C28 ----------------------------------------------------------------
\* C28: when a lookup completes, the entry of its user is the entry as the
\* events handled during the lookup left it (status, name and lastSeen as they
\* are when the query returns) with the summary of the rows as trainingLevel;
\* the entries of the other users stay as they are, and a lookup that fails
\* leaves the whole map as it is.
C28_NoUpdateLostAcrossFetch ==
  [][/\ (step'.op = "resolved" /\ HasEntry(users, step'.u)) =>
          /\ DOMAIN users' = DOMAIN users
          /\ \A v \in DOMAIN users : v # step'.u => users'[v] = users[v]
          /\ users'[step'.u].id = users[step'.u].id
          /\ users'[step'.u].name = users[step'.u].name
          /\ users'[step'.u].status = users[step'.u].status
          /\ users'[step'.u].lastSeen = users[step'.u].lastSeen
          /\ users'[step'.u].socketId = users[step'.u].socketId
          /\ users'[step'.u].trainingLevel = emitted'[1].tl
     /\ step'.op = "rejected" => users' = users]_vars

\* the lookup of a join, which set the status to online, resolved after a
\* presence:status event had set it to away: the entry is away and holds the
\* summary
C28_Witness ==
  /\ step.op = "resolved"
  /\ step.kind = "join"
  /\ HasEntry(users, step.u)
  /\ users[step.u].status = "away"
  /\ users[step.u].trainingLevel = emitted[1].tl
  /\ emitted[1].tl # NoTraining

\* ---- C29 ----------------------------------------------------------------
\* the step st was a disconnect, or an error on the current handle
Unregistering(st) == st.op = "disconnect" \/ (st.op = "error" /\ st.kind = "current")

\* C29 as stated, for the event that follows: after a disconnect or an error on
\* the current handle has set the entry of a user to offline, an event that is
\* not a presence:join for that user leaves the status offline.
C29_OfflineUntilJoin ==
  [][(/\ Unregistering(step)
      /\ HasEntry(users, step.u)
      /\ users[step.u].status = "offline"
      /\ ~(step'.op = "join" /\ step'.u = step.u)) =>
       /\ HasEntry(users', step.u)
       /\ users'[step.u].status = "offline"]_vars

\* ---- C30 ----------------------------------------------------------------
\* the level of the rows recs by the thresholds one half and four fifths of
\* the rows completed
SummaryOfRows(recs) ==
  LET n == Len(recs)
      c == Cardinality({i \in 1..n : recs[i] = "completed"})
  IN  IF n = 0 \/ 2 * c < n THEN "Beginner"
      ELSE IF 5 * c < 4 * n THEN "Intermediate"
      ELSE "Expert"

\* C30 as stated: once the lookups started by a join and by the route have all
\* completed, the summary stored is the one of the rows read last, those the
\* user has since the latest computation started (the rows change only when
\* the route saves progress and starts its computation).
C30_StoredSummaryIsNewest_Original ==
  (pending = <<>> /\ step.op = "resolved" /\ HasEntry(users, step.u)) =>
    /\ users[step.u].trainingLevel # NoTraining
    /\ users[step.u].trainingLevel[1].level = SummaryOfRows(db)

\* C30 amended: the summary stored when a lookup completes is the one of the
\* rows the query of that lookup returned, whatever the entry held, so that
\* after two overlapping computations the entry holds the summary of the one
\* that completed last; its rows can be older than those the user had when the
\* later computation started.
C30_LastCompletionWins ==
  (step.op = "resolved" /\ HasEntry(users, step.u)) =>
    /\ users[step.u].trainingLevel # NoTraining
    /\ users[step.u].trainingLevel[1].level = SummaryOfRows(step.recs)
    /\ users[step.u].trainingLevel = emitted[1].tl

\* the join's query ran before the route saved a completed row, and the join's
\* lookup completed after the route's: no lookup is pending and the entry holds
\* the summary of no rows, Beginner, while the user's rows make an Expert
C30_Witness ==
  /\ pending = <<>>
  /\ step.op = "resolved"
  /\ step.kind = "join"
  /\ step.recs = <<>>
  /\ db = <<"completed">>
  /\ HasEntry(users, step.u)
  /\ users[step.u].trainingLevel = <<[level |-> "Beginner", progress |-> 0]>>
  /\ SummaryOfRows(db) = "Expert"

====
